---- MODULE Spec2Model ----
(***************************************************************************)
(* Tolerance aggregation and Monte Carlo simulation engine of rss-tool.    *)
(*                                                                         *)
(* Numbers.  The program computes on IEEE doubles.  Here every quantity is *)
(* an integer count of a fixed unit:                                       *)
(*   - a tolerance and a sampled deviation count tolerance units;          *)
(*   - a float factor counts hundredths (FIXED = 100, SQRT3 = 173);        *)
(*   - a contribution (tolerance x floatFactor) and every total count      *)
(*     hundredths of a tolerance unit.                                     *)
(* Sums, differences and products are exact.  A square root and a quotient *)
(* are rounded to the nearest count, as the double operations round to the *)
(* nearest double.  NaN, undefined and the infinities, where the code can  *)
(* produce them in a result field, are separate tagged values.             *)
(***************************************************************************)
EXTENDS Integers, Sequences, FiniteSets, TLC

VARIABLES
    items,            \* the items argument of the engine's entry points
    calculationMode,  \* the mode argument of calculateTolerance
    pc,               \* position of the current call
    rssResult,        \* the RSSResult calculateTolerance returned
    prevResult,       \* the RSSResult returned before the last edit of items
    lastEdit,         \* the last edit applied to items
    settings,         \* MonteCarloSettings argument of runMonteCarloSimulation
    usl,              \* upper specification limit argument (optional)
    lsl,              \* lower specification limit argument (optional)
    rng,              \* state of the generator behind Math.random()
    i,                \* loop counter of the simulation loop
    stackSamples,     \* stackSamples: one signed stack total per iteration
    itemSamplesMap,   \* itemSamplesMap: item id -> the samples drawn for it
    mcStats,          \* bookkeeping of the run: Math.random() calls, non-finite samples
    mcResult,         \* the MonteCarloResult returned, or the error thrown
    firstOutcome,     \* the outcome of the first of two identical calls
    rssValue,         \* rssValue argument of calculateStatisticalAnalysis
    targetBudget,     \* targetBudget argument of calculateStatisticalAnalysis
    statistical,      \* the analysis calculateStatisticalAnalysis returned
    firstStatistical, \* the analysis returned before a value was fed back
    fedBack,          \* which required 3-sigma value was fed back as rssValue
    projectData,      \* projectData of App: toleranceMode and directions
    activeTab,        \* activeTab of App: index of the selected tab, from 0
    alertShown,       \* alert('Cannot delete the last direction') has been shown
    jsonFile,         \* parsed content of the file offered to the Load button
    isCalculating,    \* isCalculating of DirectionTab
    timers,           \* pending setTimeout callbacks of DirectionTab, oldest first
    notesDialog,      \* item-details dialog of ToleranceTable: open, editingItem, texts
    csvContent        \* the content exportToCSV wrote last

aggVars == <<calculationMode, rssResult, prevResult, lastEdit>>

mcVars == <<settings, usl, lsl, rng, i, stackSamples, itemSamplesMap, mcStats,
            mcResult, firstOutcome>>

capVars == <<rssValue, targetBudget, statistical, firstStatistical, fedBack>>

tabVars == <<isCalculating, timers>>

uiVars == <<projectData, activeTab, alertShown, jsonFile, tabVars, notesDialog, csvContent>>

engineVars == <<items, pc, aggVars, mcVars, capVars>>

vars == <<engineVars, uiVars>>

----------------------------------------------------------------------------
(* Bounds of the exploration *)

MaxItems == 2

\* iteration counts explored: -1, 0, 1 and MaxIter
MaxIter == 3

\* iteration count of the long runs
LongRun == 100

\* period of the stream of Math.random() values
RngPeriod == 2

\* directions in a project
MaxDirections == 2

\* tolerance items in a project, over all its directions
MaxRows == 2

\* deferred Monte Carlo calculations pending at once in a DirectionTab
MaxPending == 2

\* bits of the significand of the reduced-precision doubles
MantissaBits == 7

TolSet == {0, 3, 6}

----------------------------------------------------------------------------
(* Arithmetic *)

Abs(x) == IF x < 0 THEN 0 - x ELSE x

Min2(a, b) == IF a < b THEN a ELSE b

Max2(a, b) == IF a > b THEN a ELSE b

\* Math.floor(a / b) for b > 0
FloorDiv(a, b) == a \div b

\* a / b rounded to the nearest count (ties away from zero), b > 0
RoundDiv(a, b) ==
    IF a >= 0 THEN (2 * a + b) \div (2 * b)
    ELSE 0 - ((2 * (0 - a) + b) \div (2 * b))

RECURSIVE SqrtSearch(_, _, _)
SqrtSearch(n, lo, hi) ==
    \* the k in lo..hi with k*k - k < n <= k*k + k
    IF lo >= hi THEN lo
    ELSE LET mid == (lo + hi) \div 2
         IN  IF n <= mid * mid + mid
             THEN SqrtSearch(n, lo, mid)
             ELSE SqrtSearch(n, mid + 1, hi)

\* Math.sqrt(n) for n >= 0, rounded to the nearest count
Sqrt(n) == IF n <= 0 THEN 0 ELSE SqrtSearch(n, 1, Min2(n, 46000))

----------------------------------------------------------------------------
(* rssCalculator.ts *)

FIXED == 100

SQRT2 == 141

SQRT3 == 173

\* Backward compatibility
FLOAT_FACTOR == SQRT3

HasField(item, f) == f \in DOMAIN item

getItemFloatFactor(item) ==
    IF HasField(item, "floatFactor") THEN item.floatFactor
    ELSE IF HasField(item, "isFloat")
         THEN (IF item.isFloat THEN FLOAT_FACTOR ELSE FIXED)
         ELSE FIXED

contributionOf(tolerance, floatFactor) == tolerance * floatFactor

ZeroSums ==
    [sumOfSquaresPlus |-> 0, sumOfSquaresMinus |-> 0,
     worstCasePlus |-> 0, worstCaseMinus |-> 0,
     itemContributions |-> <<>>]

\* AccumulateItem with the float factor applied after squaring
AccumulateItem_FactorAfterSquare(acc, item) ==
    LET floatFactor == getItemFloatFactor(item)
    IN  [sumOfSquaresPlus |-> acc.sumOfSquaresPlus
                              + item.tolerancePlus * item.tolerancePlus * floatFactor,
         sumOfSquaresMinus |-> acc.sumOfSquaresMinus
                              + item.toleranceMinus * item.toleranceMinus * floatFactor,
         worstCasePlus |-> acc.worstCasePlus + item.tolerancePlus * floatFactor,
         worstCaseMinus |-> acc.worstCaseMinus + item.toleranceMinus * floatFactor,
         itemContributions |-> Append(acc.itemContributions,
             [itemId |-> item.id,
              contributionPlus |-> item.tolerancePlus * floatFactor,
              contributionMinus |-> item.toleranceMinus * floatFactor])]

\* AccumulateItem with a sign slip in the running sums
AccumulateItem_Subtract(acc, item) ==
    LET floatFactor == getItemFloatFactor(item)
        contributionPlus == contributionOf(item.tolerancePlus, floatFactor)
        contributionMinus == contributionOf(item.toleranceMinus, floatFactor)
    IN  [sumOfSquaresPlus |-> Abs(acc.sumOfSquaresPlus - contributionPlus * contributionPlus),
         sumOfSquaresMinus |-> Abs(acc.sumOfSquaresMinus - contributionMinus * contributionMinus),
         worstCasePlus |-> acc.worstCasePlus - contributionPlus,
         worstCaseMinus |-> acc.worstCaseMinus - contributionMinus,
         itemContributions |-> Append(acc.itemContributions,
             [itemId |-> item.id,
              contributionPlus |-> contributionPlus,
              contributionMinus |-> contributionMinus])]

\* the body of items.forEach in calculateTolerance
AccumulateItem(acc, item) ==
    LET floatFactor == getItemFloatFactor(item)
        contributionPlus == contributionOf(item.tolerancePlus, floatFactor)
        contributionMinus == contributionOf(item.toleranceMinus, floatFactor)
    IN  [sumOfSquaresPlus |-> acc.sumOfSquaresPlus + contributionPlus * contributionPlus,
         sumOfSquaresMinus |-> acc.sumOfSquaresMinus + contributionMinus * contributionMinus,
         worstCasePlus |-> acc.worstCasePlus + contributionPlus,
         worstCaseMinus |-> acc.worstCaseMinus + contributionMinus,
         itemContributions |-> Append(acc.itemContributions,
             [itemId |-> item.id,
              contributionPlus |-> contributionPlus,
              contributionMinus |-> contributionMinus])]

RECURSIVE ForEachItem(_, _)
ForEachItem(its, acc) ==
    IF its = <<>> THEN acc
    ELSE ForEachItem(Tail(its), AccumulateItem(acc, Head(its)))

\* totalOf ignoring the selected mode
totalOf_AlwaysRss(mode, sumOfSquares, worstCase) == Sqrt(sumOfSquares)

\* totalOf with the square root forgotten
totalOf_NoSqrt(mode, sumOfSquares, worstCase) ==
    IF mode = "rss" THEN sumOfSquares ELSE worstCase

totalOf(mode, sumOfSquares, worstCase) ==
    IF mode = "rss" THEN Sqrt(sumOfSquares) ELSE worstCase

calculateTolerance(its, mode) ==
    LET s == ForEachItem(its, ZeroSums)
    IN  [totalPlus |-> totalOf(mode, s.sumOfSquaresPlus, s.worstCasePlus),
         totalMinus |-> totalOf(mode, s.sumOfSquaresMinus, s.worstCaseMinus),
         worstCasePlus |-> s.worstCasePlus,
         worstCaseMinus |-> s.worstCaseMinus,
         itemContributions |-> s.itemContributions]

----------------------------------------------------------------------------
(* Values a result field can hold besides a finite number *)

Num(v) == [num |-> v]

NaN == [nan |-> TRUE]

Undefined == [undefined |-> TRUE]

PosInfinity == [infinity |-> 1]

NegInfinity == [infinity |-> 0 - 1]

IsNum(x) == "num" \in DOMAIN x

\* a / b on doubles, for integers a and b
Divide(a, b) ==
    IF b = 0
    THEN (IF a = 0 THEN NaN ELSE IF a > 0 THEN PosInfinity ELSE NegInfinity)
    ELSE IF b > 0 THEN Num(RoundDiv(a, b)) ELSE Num(RoundDiv(0 - a, 0 - b))

\* x * k for a result value x and a positive integer k
Times(x, k) == IF IsNum(x) THEN Num(x.num * k) ELSE x

\* (x / y) * 100 for result values x and y
PercentOf(x, y) ==
    IF IsNum(x) /\ IsNum(y) THEN Divide(x.num * 100, y.num) ELSE NaN

RECURSIVE SumSeq(_, _)
\* samples.reduce((sum, x) => sum + x, 0) over the first k entries
SumSeq(s, k) == IF k = 0 THEN 0 ELSE SumSeq(s, k - 1) + s[k]

RECURSIVE SumSquaredDeviations(_, _, _)
\* samples.reduce((sum, x) => sum + (x - mean) ** 2, 0) over the first k entries
SumSquaredDeviations(s, mean, k) ==
    IF k = 0 THEN 0
    ELSE SumSquaredDeviations(s, mean, k - 1) + (s[k] - mean) * (s[k] - mean)

Range(s) == {s[k] : k \in 1..Len(s)}

\* Math.min(...samples) and Math.max(...samples), samples not empty
SeqMin(s) == CHOOSE v \in Range(s) : \A w \in Range(s) : v <= w

SeqMax(s) == CHOOSE v \in Range(s) : \A w \in Range(s) : v >= w

\* mean and standard deviation of a sample vector (divide by n)
MeanOf(s) == Divide(SumSeq(s, Len(s)), Len(s))

\* the standard deviation with Bessel's correction (divide by n - 1)
StdDevOf_Bessel(s) ==
    LET mean == MeanOf(s)
    IN  IF IsNum(mean)
        THEN (IF Len(s) = 1 THEN NaN
              ELSE Num(Sqrt(RoundDiv(SumSquaredDeviations(s, mean.num, Len(s)), Len(s) - 1))))
        ELSE NaN

StdDevOf(s) ==
    LET mean == MeanOf(s)
    IN  IF IsNum(mean)
        THEN Num(Sqrt(RoundDiv(SumSquaredDeviations(s, mean.num, Len(s)), Len(s))))
        ELSE NaN

----------------------------------------------------------------------------
(* monteCarloCalculator.ts *)

\* A value of Math.random() counts quarters: q stands for q / 4 in [0, 1).
UnitDraws == 0..3

\* The generator behind Math.random() is a stream of period RngPeriod.
RngPatterns == [1..RngPeriod -> UnitDraws]

RandomValue(g) == g.pattern[g.pos + 1]

RandomNext(g) == [g EXCEPT !.pos = (g.pos + 1) % Len(g.pattern)]

\* Math.sqrt(-2 * Math.log(q / 4)) in thousandths, q > 0
BoxMullerRadius(q) == CASE q = 1 -> 1665 [] q = 2 -> 1177 [] OTHER -> 759

\* Math.cos(2 * Math.PI * q / 4) rounded to a whole number
CosOfTurn(q) == CASE q = 0 -> 1 [] q = 2 -> 0 - 1 [] OTHER -> 0

\* A sampled value, whether it is finite, the generator after the sampling and
\* the number of Math.random() calls the sampling made.
Drawn(v, g, fin, n) == [value |-> v, rng |-> g, finite |-> fin, calls |-> n]

\* u1 = 0 makes Math.log(u1) -Infinity and the sample +-Infinity
generateNormal(mean, stdDev, g) ==
    LET u1 == RandomValue(g)
        g1 == RandomNext(g)
        u2 == RandomValue(g1)
        g2 == RandomNext(g1)
    IN  IF u1 = 0 THEN Drawn(0, g2, FALSE, 2)
        ELSE Drawn(mean + RoundDiv(BoxMullerRadius(u1) * CosOfTurn(u2) * stdDev, 1000),
                   g2, TRUE, 2)

\* generateUniform without the shift by min
generateUniform_FromZero(min, max, g) ==
    Drawn(RoundDiv(RandomValue(g) * (max - min), 4), RandomNext(g), TRUE, 1)

generateUniform(min, max, g) ==
    Drawn(min + RoundDiv(RandomValue(g) * (max - min), 4), RandomNext(g), TRUE, 1)

generateTriangular(min, max, g) ==
    LET u == RandomValue(g)
        mode == RoundDiv(min + max, 2)
    IN  \* u < fc with fc = (mode - min) / (max - min)
        IF u * (max - min) < 4 * (mode - min)
        THEN Drawn(min + Sqrt(RoundDiv(u * (max - min) * (mode - min), 4)),
                   RandomNext(g), TRUE, 1)
        ELSE Drawn(max - Sqrt(RoundDiv((4 - u) * (max - min) * (max - mode), 4)),
                   RandomNext(g), TRUE, 1)

\* |floatFactor - sqrt(3)| < 0.01 with sqrt(3) = 1.732, the factor in hundredths
IsFloating(item) ==
    HasField(item, "floatFactor") /\ Abs(10 * item.floatFactor - 1732) < 10

\* the selection with the item's own distributionType never consulted
getDistributionType_AutoOnly(item, useAdvanced) ==
    IF IsFloating(item) THEN "uniform" ELSE "normal"

getDistributionType(item, useAdvanced) ==
    IF useAdvanced /\ HasField(item, "distributionType")
    THEN item.distributionType
    ELSE IF IsFloating(item) THEN "uniform" ELSE "normal"

\* the switch of sampleTolerance
SampleByType(tolerance, distributionType, g) ==
    CASE distributionType = "normal" ->
           generateNormal(0, RoundDiv(tolerance, 3), g)
      [] distributionType = "uniform" ->
           generateUniform(0 - tolerance, tolerance, g)
      [] distributionType = "triangular" ->
           generateTriangular(0 - tolerance, tolerance, g)
      [] OTHER ->
           Drawn(tolerance, g, TRUE, 0)

\* sampleTolerance with the zero check after the switch has drawn
sampleTolerance_DrawFirst(item, distributionType, isPlus, g) ==
    LET tolerance == IF isPlus THEN item.tolerancePlus ELSE item.toleranceMinus
        d == SampleByType(tolerance, distributionType, g)
    IN  IF tolerance = 0 THEN Drawn(0, d.rng, TRUE, d.calls) ELSE d

\* sampleTolerance reading the minus side whatever isPlus is
sampleTolerance_MinusSide(item, distributionType, isPlus, g) ==
    LET tolerance == item.toleranceMinus
    IN  IF tolerance = 0 THEN Drawn(0, g, TRUE, 0)
        ELSE SampleByType(tolerance, distributionType, g)

sampleTolerance(item, distributionType, isPlus, g) ==
    LET tolerance == IF isPlus THEN item.tolerancePlus ELSE item.toleranceMinus
    IN  IF tolerance = 0 THEN Drawn(0, g, TRUE, 0)
        ELSE SampleByType(tolerance, distributionType, g)

\* the loop body accumulating magnitudes instead of signed contributions
SampleItem_Magnitudes(acc, item, useAdvanced) ==
    LET distributionType == getDistributionType(item, useAdvanced)
        sampled == sampleTolerance(item, distributionType, TRUE, acc.rng)
        hasFactor == HasField(item, "floatFactor")
        contribution == IF hasFactor THEN Abs(sampled.value * item.floatFactor) ELSE 0
    IN  [totalDeviation |-> acc.totalDeviation + contribution,
         map |-> [acc.map EXCEPT ![item.id] = Append(@, sampled.value)],
         rng |-> sampled.rng,
         draws |-> acc.draws + sampled.calls,
         finite |-> acc.finite /\ sampled.finite /\ hasFactor]

\* the body of items.forEach inside the simulation loop; acc carries
\* totalDeviation, itemSamplesMap, the generator and the run's bookkeeping
SampleItem(acc, item, useAdvanced) ==
    LET distributionType == getDistributionType(item, useAdvanced)
        sampled == sampleTolerance(item, distributionType, TRUE, acc.rng)
        hasFactor == HasField(item, "floatFactor")
        contribution == IF hasFactor THEN sampled.value * item.floatFactor ELSE 0
    IN  [totalDeviation |-> acc.totalDeviation + contribution,
         map |-> [acc.map EXCEPT ![item.id] = Append(@, sampled.value)],
         rng |-> sampled.rng,
         draws |-> acc.draws + sampled.calls,
         finite |-> acc.finite /\ sampled.finite /\ hasFactor]

RECURSIVE SampleItems(_, _, _)
SampleItems(its, acc, useAdvanced) ==
    IF its = <<>> THEN acc
    ELSE SampleItems(Tail(its), SampleItem(acc, Head(its), useAdvanced), useAdvanced)

\* Math.min(Math.floor((value - min) / binWidth), numBins - 1), min < max
BinIndex(value, min, max, numBins) ==
    Min2(FloorDiv((value - min) * numBins, max - min), numBins - 1)

\* binWidth = 0 makes the bin index NaN and bins[NaN].count++ a TypeError
HistogramThrows(samples) ==
    samples # <<>> /\ SeqMin(samples) = SeqMax(samples)

\* createHistogram for samples on which it does not throw; bin edges are
\* kept as multiples of 1 / (2 * numBins), a frequency as count over total
createHistogram(samples, numBins) ==
    IF samples = <<>> THEN <<>>
    ELSE LET min == SeqMin(samples)
             max == SeqMax(samples)
         IN  [b \in 1..numBins |->
                LET count == Cardinality({k \in 1..Len(samples) :
                                 BinIndex(samples[k], min, max, numBins) = b - 1})
                IN  [binStart |-> 2 * (min * numBins + (b - 1) * (max - min)),
                     binEnd |-> 2 * (min * numBins + b * (max - min)),
                     binCenter |-> 2 * min * numBins + (2 * b - 1) * (max - min),
                     count |-> count,
                     frequency |-> [num |-> count, den |-> Len(samples)]]]

\* [...stackSamples].sort((a, b) => a - b) without the sort
SortSamples_Unsorted(samples) == samples

RECURSIVE SortedFrom(_, _)
SortedFrom(samples, values) ==
    IF values = {} THEN <<>>
    ELSE LET least == CHOOSE v \in values : \A w \in values : v <= w
             n == Cardinality({k \in 1..Len(samples) : samples[k] = least})
         IN  [k \in 1..n |-> least] \o SortedFrom(samples, values \ {least})

\* [...stackSamples].sort((a, b) => a - b)
SortSamples(samples) == SortedFrom(samples, Range(samples))

\* Math.ceil((p / 100) * n) - 1
PercentileIndex(p, n) == ((p * n + 99) \div 100) - 1

getPercentile(sortedSamples, p) ==
    LET n == Len(sortedSamples)
        index == Max2(0, Min2(PercentileIndex(p, n), n - 1))
    IN  IF index + 1 \in 1..n THEN Num(sortedSamples[index + 1]) ELSE Undefined

calculatePercentiles(sortedSamples) ==
    [p5 |-> getPercentile(sortedSamples, 5),
     p50 |-> getPercentile(sortedSamples, 50),
     p95 |-> getPercentile(sortedSamples, 95),
     p99 |-> getPercentile(sortedSamples, 99),
     mean |-> MeanOf(sortedSamples),
     stdDev |-> StdDevOf(sortedSamples)]

\* one entry of itemContributions
ItemContribution(item, samples, percentiles) ==
    LET factor == IF HasField(item, "floatFactor") THEN item.floatFactor ELSE 0
        weightedMean == IF HasField(item, "floatFactor")
                        THEN Times(MeanOf(samples), factor) ELSE NaN
    IN  [itemId |-> item.id,
         mean |-> weightedMean,
         stdDev |-> IF HasField(item, "floatFactor")
                    THEN Times(StdDevOf(samples), factor) ELSE NaN,
         percentContribution |-> PercentOf(weightedMean, percentiles.mean)]

\* count / iterations
Probability(count, iterations) ==
    IF iterations = 0 THEN NaN
    ELSE IF iterations > 0 THEN [num |-> count, den |-> iterations]
         ELSE [num |-> 0 - count, den |-> 0 - iterations]

\* the count with a sample equal to the limit included
Exceeding_Inclusive(samples, limit, above) ==
    IF limit = Undefined THEN 0
    ELSE Cardinality({k \in 1..Len(samples) :
            IF above THEN samples[k] >= limit.num ELSE samples[k] <= limit.num})

Exceeding(samples, limit, above) ==
    IF limit = Undefined THEN 0
    ELSE Cardinality({k \in 1..Len(samples) :
            IF above THEN samples[k] > limit.num ELSE samples[k] < limit.num})

RiskAnalysis(samples, iterations, upper, lower) ==
    IF upper = Undefined /\ lower = Undefined THEN Undefined
    ELSE LET exceedingUSL == Exceeding(samples, upper, TRUE)
             exceedingLSL == Exceeding(samples, lower, FALSE)
             probabilityExceedingUSL == Probability(exceedingUSL, iterations)
             probabilityExceedingLSL == Probability(exceedingLSL, iterations)
             probabilityOutOfSpec ==
                 IF iterations = 0 THEN NaN
                 ELSE [num |-> probabilityExceedingUSL.num + probabilityExceedingLSL.num,
                       den |-> probabilityExceedingUSL.den]
         IN  [usl |-> upper,
              lsl |-> lower,
              probabilityExceedingUSL |-> probabilityExceedingUSL,
              probabilityExceedingLSL |-> probabilityExceedingLSL,
              probabilityOutOfSpec |-> probabilityOutOfSpec,
              expectedDefectRate |->
                  IF iterations = 0 THEN NaN
                  ELSE Divide(probabilityOutOfSpec.num * 1000000, probabilityOutOfSpec.den)]

ItemIds(its) == {its[k].id : k \in 1..Len(its)}

TypeError == [error |-> "TypeError"]

\* the statements of runMonteCarloSimulation after the loop throw
SummaryThrows(its, samples, map, finite) ==
    \/ ~finite
    \/ HistogramThrows(samples)
    \/ \E k \in 1..Len(its) : HistogramThrows(map[its[k].id])

\* the statements of runMonteCarloSimulation after the loop
Summary(its, iterations, samples, map, upper, lower) ==
    LET sortedSamples == SortSamples(samples)
        percentiles == calculatePercentiles(sortedSamples)
    IN  [iterations |-> iterations,
         samples |-> samples,
         percentiles |-> percentiles,
         histogram |-> createHistogram(samples, 50),
         itemHistograms |-> [id \in ItemIds(its) |-> createHistogram(map[id], 30)],
         itemContributions |->
             [k \in 1..Len(its) |-> ItemContribution(its[k], map[its[k].id], percentiles)],
         riskAnalysis |-> RiskAnalysis(samples, iterations, upper, lower)]

----------------------------------------------------------------------------
(* Doubles at reduced precision, for the capability analysis.              *)
(* A double is a significand of 53 bits times a power of two, and every    *)
(* operation rounds its exact result to the nearest such number (ties to   *)
(* even).  Here the significand has MantissaBits bits; the rounding rule   *)
(* is the same.  Only non-negative values occur: an RSS total is a square  *)
(* root and the limit is positive where the analysis is made.              *)

RECURSIVE Pow2(_)
Pow2(n) == IF n <= 0 THEN 1 ELSE 2 * Pow2(n - 1)

RECURSIVE BitLen(_)
\* number of binary digits of n > 0
BitLen(n) == IF n <= 1 THEN 1 ELSE 1 + BitLen(n \div 2)

\* the number m * 2^e
Flt(m, e) == [m |-> m, e |-> e]

FZero == Flt(0, 0)

IsFlt(x) == "m" \in DOMAIN x

\* n * 2^e for an integer n > 0, rounded to MantissaBits bits, ties to even
RoundToFloat(n, e) ==
    LET s == BitLen(n) - MantissaBits
    IN  IF s <= 0 THEN Flt(n * Pow2(0 - s), e + s)
        ELSE LET q == n \div Pow2(s)
                 r == n % Pow2(s)
                 half == Pow2(s - 1)
                 up == r > half \/ (r = half /\ q % 2 = 1)
                 m == IF up THEN q + 1 ELSE q
             IN  IF m = Pow2(MantissaBits)
                 THEN Flt(Pow2(MantissaBits - 1), e + s + 1)
                 ELSE Flt(m, e + s)

RECURSIVE RoundRatio(_, _, _)
\* (num / den) * 2^e for integers num, den > 0, correctly rounded: the
\* quotient is taken with two bits more than the significand holds, and one
\* more that tells whether the division left a remainder
RoundRatio(num, den, e) ==
    IF num < den * Pow2(MantissaBits + 1)
    THEN RoundRatio(2 * num, den, e - 1)
    ELSE RoundToFloat(2 * (num \div den) + (IF num % den = 0 THEN 0 ELSE 1), e - 1)

\* a / b with a zero divisor taken as an invalid operation
FDiv_ZeroDivisorNaN(a, b) ==
    IF a = NaN \/ b = NaN THEN NaN
    ELSE IF a = PosInfinity THEN (IF b = PosInfinity THEN NaN ELSE PosInfinity)
    ELSE IF b = PosInfinity THEN FZero
    ELSE IF b.m = 0 THEN NaN
    ELSE IF a.m = 0 THEN FZero
    ELSE RoundRatio(a.m, b.m, a.e - b.e)

\* a / b on doubles
FDiv(a, b) ==
    IF a = NaN \/ b = NaN THEN NaN
    ELSE IF a = PosInfinity THEN (IF b = PosInfinity THEN NaN ELSE PosInfinity)
    ELSE IF b = PosInfinity THEN FZero
    ELSE IF b.m = 0 THEN (IF a.m = 0 THEN NaN ELSE PosInfinity)
    ELSE IF a.m = 0 THEN FZero
    ELSE RoundRatio(a.m, b.m, a.e - b.e)

\* a * b on doubles
FMul(a, b) ==
    IF a = NaN \/ b = NaN THEN NaN
    ELSE IF a = PosInfinity \/ b = PosInfinity
         THEN (IF a = FZero \/ b = FZero THEN NaN ELSE PosInfinity)
    ELSE IF a.m = 0 \/ b.m = 0 THEN FZero
    ELSE RoundToFloat(a.m * b.m, a.e + b.e)

\* the double nearest to the decimal literal num / den
Literal(num, den) == RoundRatio(num, den, 0)

\* a finite value as a count of hundredths
Hundredths(x) ==
    IF x.e >= 0 THEN x.m * Pow2(x.e) * 100 ELSE RoundDiv(x.m * 100, Pow2(0 - x.e))

\* Math.exp(-k) in ten-thousandths, for the argument rounded to an integer k
ExpOfMinus(k) ==
    CASE k = 0 -> 10000 [] k = 1 -> 3679 [] k = 2 -> 1353 [] k = 3 -> 498
      [] k = 4 -> 183 [] k = 5 -> 67 [] k = 6 -> 25 [] k = 7 -> 9
      [] k = 8 -> 3 [] k = 9 -> 1 [] OTHER -> 0

RangeError == [error |-> "RangeError"]

\* normalCDF(z) in ten-thousandths.  z is NaN: neither branch's test holds
\* for it, so the function calls itself on -z = NaN without end and the
\* engine raises a RangeError.
normalCDF(z) ==
    IF z = NaN THEN RangeError
    ELSE IF z = PosInfinity
    THEN \* t = 1 / Infinity = 0 and d = 0.3989423 * Math.exp(-Infinity) = 0
         Num(10000)
    ELSE LET zh == Hundredths(z)
             t == RoundDiv(100000000, 10000 + RoundDiv(2316 * zh, 100))
             d == RoundDiv(3989 * ExpOfMinus(RoundDiv(zh * zh, 20000)), 10000)
             p5 == 13303
             p4 == (0 - 18213) + RoundDiv(t * p5, 10000)
             p3 == 17815 + RoundDiv(t * p4, 10000)
             p2 == (0 - 3566) + RoundDiv(t * p3, 10000)
             p1 == 3194 + RoundDiv(t * p2, 10000)
         IN  Num(10000 - RoundDiv(RoundDiv(d * t, 10000) * p1, 10000))

\* the analysis with the 3-sigma total taken as one sigma
calculateStatisticalAnalysis_TotalAsSigma(rss, budget) ==
    LET oneSigma == rss
        zScore == FDiv(budget, oneSigma)
        cdf == normalCDF(zScore)
    IN  IF cdf = RangeError THEN RangeError
        ELSE [current3Sigma |-> rss,
              currentCpk |-> FDiv(budget, FMul(Literal(3, 1), oneSigma)),
              currentYield |-> cdf,
              required3SigmaFor1_33Cpk |-> FDiv(budget, Literal(133, 100)),
              required3SigmaFor1_66Cpk |-> FDiv(budget, Literal(166, 100))]

\* calculateStatisticalAnalysis(rssValue, targetBudget); currentYield counts
\* hundredths of a percent
calculateStatisticalAnalysis(rss, budget) ==
    LET current3Sigma == rss
        oneSigma == FDiv(current3Sigma, Literal(3, 1))
        currentCpk == FDiv(budget, FMul(Literal(3, 1), oneSigma))
        zScore == FDiv(budget, oneSigma)
        cdf == normalCDF(zScore)
    IN  IF cdf = RangeError THEN RangeError
        ELSE [current3Sigma |-> current3Sigma,
              currentCpk |-> currentCpk,
              currentYield |-> cdf,
              required3SigmaFor1_33Cpk |-> FDiv(budget, Literal(133, 100)),
              required3SigmaFor1_66Cpk |-> FDiv(budget, Literal(166, 100))]

----------------------------------------------------------------------------
(* Inputs of the deterministic aggregator *)

FactorSet == {FIXED, SQRT3}

AggItems ==
    [id : {0}, tolerancePlus : TolSet, toleranceMinus : TolSet, floatFactor : FactorSet]

\* item ids are unique within a stack: the id is the position
WithIds(its) == [k \in 1..Len(its) |-> [its[k] EXCEPT !.id = k]]

ListsOf(S, n) == UNION {[1..k -> S] : k \in 0..n}

AggStacks == {WithIds(l) : l \in ListsOf(AggItems, MaxItems)}

NoResult == [none |-> TRUE]

NoEdit == [none |-> TRUE]

\* texts typed into a tolerance field or read from a CSV cell
TypedTexts == {"-0.5", "", "0.5"}

\* parseFloat(text) || 0
ParseFloatOrZero(text) ==
    CASE text = "-0.5" -> 0 - 1
      [] text = "0.5" -> 1
      [] OTHER -> 0

\* Math.max(0, parseFloat(cell || '0') || 0)
ParseCell(text) == Max2(0, ParseFloatOrZero(text))

\* the project of useState in App
InitialProject ==
    [toleranceMode |-> "symmetric", directions |-> <<[items |-> <<>>]>>]

\* the item of handleAddItem
NewItem == [tolerancePlus |-> 1, toleranceMinus |-> 1, floatFactor |-> FIXED]

RECURSIVE TotalItems(_)
TotalItems(directions) ==
    IF directions = <<>> THEN 0
    ELSE Len(Head(directions).items) + TotalItems(Tail(directions))

\* list without its k-th entry
RemoveAt(s, k) == [j \in 1..(Len(s) - 1) |-> IF j < k THEN s[j] ELSE s[j + 1]]

\* list with x inserted after its k-th entry
InsertAfter(s, k, x) ==
    [j \in 1..(Len(s) + 1) |-> IF j <= k THEN s[j] ELSE IF j = k + 1 THEN x ELSE s[j - 1]]

\* the item-details dialog as useState leaves it: closed, no item, no text
ClosedDialog == [open |-> FALSE, editingItem |-> 0, editNotes |-> "", editSource |-> ""]

\* nothing has been exported: no stack has been written
NoCsv == <<>>

\* DirectionTab has no calculation deferred
NoTimers ==
    /\ isCalculating = FALSE
    /\ timers = <<>>

\* no file is offered
NoFile == [none |-> TRUE]

\* the editor is not in use, with no file to load
NoProject ==
    /\ projectData = InitialProject
    /\ activeTab = 0
    /\ alertShown = FALSE
    /\ jsonFile = NoFile
    /\ notesDialog = ClosedDialog
    /\ csvContent = NoCsv
    /\ NoTimers

\* calculateStatisticalAnalysis is not being called
NoAnalysis ==
    /\ rssValue = FZero
    /\ targetBudget = FZero
    /\ statistical = NoResult
    /\ firstStatistical = NoResult
    /\ fedBack = "none"

\* runMonteCarloSimulation is not being called
NoSimulation ==
    /\ settings = [iterations |-> 0, useAdvancedDistributions |-> FALSE]
    /\ usl = Undefined
    /\ lsl = Undefined
    /\ rng = [pattern |-> [k \in 1..RngPeriod |-> 0], pos |-> 0]
    /\ i = 0
    /\ stackSamples = <<>>
    /\ itemSamplesMap = <<>>
    /\ mcStats = [draws |-> 0, finite |-> TRUE]
    /\ mcResult = NoResult
    /\ firstOutcome = NoResult

InitAgg ==
    /\ items \in AggStacks
    /\ calculationMode \in {"rss", "worstCase"}
    /\ pc = "start"
    /\ rssResult = NoResult
    /\ prevResult = NoResult
    /\ lastEdit = NoEdit
    /\ NoSimulation
    /\ NoAnalysis
    /\ NoProject

\* a call calculateTolerance(items, directionId, directionName, calculationMode)
Calculate ==
    /\ pc = "start"
    /\ calculationMode \in {"rss", "worstCase"}
    /\ rssResult' = calculateTolerance(items, calculationMode)
    /\ pc' = "returned"
    /\ UNCHANGED <<items, calculationMode, prevResult, lastEdit, mcVars, capVars, uiVars>>

\* One item's tolerance is raised on one side, everything else held fixed, and
\* calculateTolerance is called on the edited stack.
IncreaseTolerance ==
    /\ pc = "returned"
    /\ calculationMode \in {"rss", "worstCase"}
    /\ lastEdit = NoEdit
    /\ \E k \in 1..Len(items), side \in {"tolerancePlus", "toleranceMinus"}, t \in TolSet :
          /\ t > items[k][side]
          /\ items' = [items EXCEPT ![k][side] = t]
          /\ lastEdit' = [index |-> k, side |-> side]
    /\ prevResult' = rssResult
    /\ rssResult' = calculateTolerance(items', calculationMode)
    /\ UNCHANGED <<calculationMode, pc, mcVars, capVars, uiVars>>

NextAgg == Calculate \/ IncreaseTolerance

SpecAgg == InitAgg /\ [][NextAgg]_vars

----------------------------------------------------------------------------
(* Capability analysis: calls of calculateStatisticalAnalysis *)

\* limits: zero and the numbers of two binades around 1
CapBudgets ==
    {FZero} \cup {Flt(m, e) : m \in Pow2(MantissaBits - 1)..(Pow2(MantissaBits) - 1),
                              e \in {1 - MantissaBits, 2 - MantissaBits}}

\* RSS totals: 0, 1, the number after 1, and 1.5
CapTotals ==
    {FZero} \cup {Flt(m, 1 - MantissaBits) :
                     m \in {Pow2(MantissaBits - 1), Pow2(MantissaBits - 1) + 1,
                            3 * Pow2(MantissaBits - 2)}}

InitCap ==
    /\ rssValue \in CapTotals
    /\ targetBudget \in CapBudgets
    /\ statistical = NoResult
    /\ firstStatistical = NoResult
    /\ fedBack = "none"
    /\ items = <<>>
    /\ pc = "start"
    /\ calculationMode = "rss"
    /\ rssResult = NoResult
    /\ prevResult = NoResult
    /\ lastEdit = NoEdit
    /\ NoSimulation
    /\ NoProject

\* calculateStatisticalAnalysis(rssValue, targetBudget) returns
Analyse ==
    /\ pc = "start"
    /\ calculateStatisticalAnalysis(rssValue, targetBudget) # RangeError
    /\ statistical' = calculateStatisticalAnalysis(rssValue, targetBudget)
    /\ pc' = "returned"
    /\ UNCHANGED <<items, rssValue, targetBudget, firstStatistical, fedBack, aggVars, mcVars, uiVars>>

\* calculateStatisticalAnalysis(rssValue, targetBudget) does not return:
\* normalCDF recurses until the call stack is exhausted
AnalyseThrows ==
    /\ pc = "start"
    /\ calculateStatisticalAnalysis(rssValue, targetBudget) = RangeError
    /\ statistical' = RangeError
    /\ pc' = "threw"
    /\ UNCHANGED <<items, rssValue, targetBudget, firstStatistical, fedBack, aggVars, mcVars, uiVars>>

\* one of the two required 3-sigma values of the analysis is fed back in as the
\* RSS total, against the same limit
FeedBack ==
    /\ pc = "returned"
    /\ fedBack = "none"
    /\ \E target \in {"1.33", "1.66"} :
          /\ fedBack' = target
          /\ rssValue' = IF target = "1.33" THEN statistical.required3SigmaFor1_33Cpk
                         ELSE statistical.required3SigmaFor1_66Cpk
    /\ firstStatistical' = statistical
    /\ statistical' = calculateStatisticalAnalysis(rssValue', targetBudget)
    /\ pc' = IF statistical' = RangeError THEN "threw" ELSE "returned"
    /\ UNCHANGED <<items, targetBudget, aggVars, mcVars, uiVars>>

NextCap == Analyse \/ AnalyseThrows \/ FeedBack

SpecCap == InitCap /\ [][NextCap]_vars

----------------------------------------------------------------------------
(* Calls of runMonteCarloSimulation *)

PlainItems ==
    {[id |-> 0, tolerancePlus |-> t, toleranceMinus |-> t, floatFactor |-> f] :
        t \in {0, 6}, f \in FactorSet}

TypedItems ==
    {[id |-> 0, tolerancePlus |-> t, toleranceMinus |-> t, floatFactor |-> FIXED,
      distributionType |-> "triangular"] : t \in {0, 6}}
    \cup {[id |-> 0, tolerancePlus |-> 6, toleranceMinus |-> 3, floatFactor |-> SQRT3,
           distributionType |-> "normal"]}

MCItems == PlainItems \cup TypedItems

MCStacks == {WithIds(l) : l \in ListsOf(MCItems, MaxItems)}

\* the state of runMonteCarloSimulation when its loop is entered
EnterLoop ==
    /\ pc = "loop"
    /\ i = 0
    /\ stackSamples = <<>>
    /\ itemSamplesMap = [id \in ItemIds(items) |-> <<>>]
    /\ mcStats = [draws |-> 0, finite |-> TRUE]
    /\ mcResult = NoResult

\* streams of Math.random() values for the long runs
LongPatterns == {<<1, 2, 3, 1, 3, 2, 2>>, <<0, 1, 2, 3, 1, 3, 2>>}

\* a call with the limits usl and lsl drawn from uppers and lowers
InitCallWith(stacks, counts, generators, uppers, lowers) ==
    /\ items \in stacks
    /\ settings \in [iterations : counts, useAdvancedDistributions : BOOLEAN, seed : {1}]
    /\ usl \in uppers
    /\ lsl \in lowers
    /\ rng \in generators
    /\ EnterLoop
    /\ firstOutcome = NoResult
    /\ calculationMode = "monteCarlo"
    /\ rssResult = NoResult
    /\ prevResult = NoResult
    /\ lastEdit = NoEdit
    /\ NoAnalysis
    /\ NoProject

\* a call without specification limits
InitCall(stacks, counts, generators) ==
    InitCallWith(stacks, counts, generators, {Undefined}, {Undefined})

\* iteration counts: negative, zero, a single iteration, and the longest run
Init == InitCall(MCStacks, {0 - 1, 0, 1, MaxIter}, [pattern : RngPatterns, pos : {0}])

InitLong ==
    InitCall({s \in MCStacks : Len(s) <= 1}, {LongRun},
             {[pattern |-> p, pos |-> k] : p \in LongPatterns, k \in 0..6})

\* one iteration of the simulation loop
Iterate ==
    /\ pc = "loop"
    /\ i < settings.iterations
    /\ LET acc == SampleItems(items,
                       [totalDeviation |-> 0, map |-> itemSamplesMap, rng |-> rng,
                        draws |-> mcStats.draws, finite |-> mcStats.finite],
                       settings.useAdvancedDistributions)
       IN  /\ stackSamples' = Append(stackSamples, acc.totalDeviation)
           /\ itemSamplesMap' = acc.map
           /\ rng' = acc.rng
           /\ mcStats' = [draws |-> acc.draws, finite |-> acc.finite]
    /\ i' = i + 1
    /\ UNCHANGED <<items, pc, settings, usl, lsl, mcResult, firstOutcome, aggVars, capVars, uiVars>>

\* the loop is over and the summary is returned
Return ==
    /\ pc = "loop"
    /\ ~(i < settings.iterations)
    /\ ~SummaryThrows(items, stackSamples, itemSamplesMap, mcStats.finite)
    /\ mcResult' = Summary(items, settings.iterations, stackSamples, itemSamplesMap, usl, lsl)
    /\ pc' = "returned"
    /\ UNCHANGED <<items, settings, usl, lsl, rng, i, stackSamples, itemSamplesMap,
                   mcStats, firstOutcome, aggVars, capVars, uiVars>>

\* the loop is over and createHistogram throws
Throw ==
    /\ pc = "loop"
    /\ ~(i < settings.iterations)
    /\ SummaryThrows(items, stackSamples, itemSamplesMap, mcStats.finite)
    /\ mcResult' = TypeError
    /\ pc' = "threw"
    /\ UNCHANGED <<items, settings, usl, lsl, rng, i, stackSamples, itemSamplesMap,
                   mcStats, firstOutcome, aggVars, capVars, uiVars>>

\* runMonteCarloSimulation is called a second time with the same arguments;
\* Math.random() goes on from where the first call left it
Rerun ==
    /\ pc \in {"returned", "threw"}
    /\ firstOutcome = NoResult
    /\ firstOutcome' = mcResult
    /\ pc' = "loop"
    /\ i' = 0
    /\ stackSamples' = <<>>
    /\ itemSamplesMap' = [id \in ItemIds(items) |-> <<>>]
    /\ mcStats' = [draws |-> 0, finite |-> TRUE]
    /\ mcResult' = NoResult
    /\ UNCHANGED <<items, settings, usl, lsl, rng, aggVars, capVars, uiVars>>

\* the generator as it was when the loop was entered
RngAtEntry ==
    [pattern |-> rng.pattern,
     pos |-> (rng.pos + Len(rng.pattern) * mcStats.draws - mcStats.draws) % Len(rng.pattern)]

\* runMonteCarloSimulation is called a second time on the items with one
\* toleranceMinus replaced, Math.random() giving the draws of the first call
RerunOtherMinus ==
    /\ pc \in {"returned", "threw"}
    /\ firstOutcome = NoResult
    /\ \E k \in 1..Len(items), t \in TolSet :
          /\ t # items[k].toleranceMinus
          /\ items' = [items EXCEPT ![k].toleranceMinus = t]
    /\ firstOutcome' = mcResult
    /\ rng' = RngAtEntry
    /\ pc' = "loop"
    /\ i' = 0
    /\ stackSamples' = <<>>
    /\ itemSamplesMap' = [id \in ItemIds(items) |-> <<>>]
    /\ mcStats' = [draws |-> 0, finite |-> TRUE]
    /\ mcResult' = NoResult
    /\ UNCHANGED <<settings, usl, lsl, aggVars, capVars, uiVars>>

\* a normal, a uniform and a triangular item with a plus side to sample, and
\* an item without one
MinusItems ==
    {item \in MCItems : item.tolerancePlus = item.toleranceMinus /\ item.tolerancePlus > 0
                           /\ item.floatFactor \in {FIXED, SQRT3}}
    \cup {[id |-> 0, tolerancePlus |-> 0, toleranceMinus |-> 0, floatFactor |-> SQRT3]}

\* full-length calls on stacks of at least one item
InitMinus ==
    InitCall({WithIds(l) : l \in ListsOf(MinusItems, MaxItems) \ {<<>>}}, {MaxIter},
             [pattern : RngPatterns, pos : {0}])

\* calls with specification limits, in hundredths of a tolerance unit, on
\* stacks of at most one item; the limits are of either sign, and the lower
\* one may lie above the upper one
InitRisk ==
    InitCallWith({s \in MCStacks : Len(s) <= 1}, {0 - 1, 0, 1, MaxIter},
                 [pattern : RngPatterns, pos : {0}],
                 {Undefined, Num(0), Num(300), Num(0 - 300)},
                 {Undefined, Num(0), Num(0 - 300), Num(300)})

Next == Iterate \/ Return \/ Throw

NextTwice == Next \/ Rerun

Spec == Init /\ [][Next]_vars

SpecTwice == Init /\ [][NextTwice]_vars

SpecLong == InitLong /\ [][Next]_vars

SpecRisk == InitRisk /\ [][Next]_vars

NextMinus == Next \/ RerunOtherMinus

SpecMinus == InitMinus /\ [][NextMinus]_vars

\* items of an earlier version, carrying the deprecated isFloat flag and no
\* floatFactor, next to items of the current one
LegacyItems ==
    {[id |-> 0, tolerancePlus |-> t, toleranceMinus |-> t, isFloat |-> b] :
        t \in {0, 6}, b \in BOOLEAN}
    \cup {[id |-> 0, tolerancePlus |-> 6, toleranceMinus |-> 6, isFloat |-> TRUE,
           distributionType |-> "triangular"]}
    \cup {item \in PlainItems : item.floatFactor \in {FIXED, SQRT3}}

\* calls on stacks that may hold such items
InitLegacy ==
    InitCall({WithIds(l) : l \in ListsOf(LegacyItems, MaxItems)}, {0, 1, MaxIter},
             [pattern : RngPatterns, pos : {0}])

SpecLegacy == InitLegacy /\ [][Next]_vars

----------------------------------------------------------------------------
(* Project editor: App.tsx, DirectionTab.tsx, ToleranceTable.tsx,          *)
(* CSVImportDialog.tsx.  A tolerance in the editor counts halves of a      *)
(* unit: the 0.5 of a new item is 1.  Direction and item ids are           *)
(* timestamps taken at distinct instants, so ids are unique and a handler's *)
(* id argument names one position of the list.                             *)

NoEngine ==
    /\ items = <<>>
    /\ pc = "start"
    /\ calculationMode = "rss"
    /\ rssResult = NoResult
    /\ prevResult = NoResult
    /\ lastEdit = NoEdit
    /\ NoSimulation
    /\ NoAnalysis

InitApp == NoProject /\ NoEngine

\* a DirectionTab is rendered for the direction at index activeTab
TabShown == activeTab + 1 \in 1..Len(projectData.directions)

ShownItems == projectData.directions[activeTab + 1].items

\* handleItemsChange -> handleDirectionChange: the shown direction gets its
\* items replaced
ItemsChange(newItems) ==
    /\ projectData' = [projectData EXCEPT !.directions[activeTab + 1].items = newItems]
    /\ UNCHANGED <<activeTab, alertShown, jsonFile, tabVars, notesDialog, csvContent, engineVars>>

handleToleranceModeChange ==
    \E mode \in {"symmetric", "asymmetric"} :
        /\ projectData' = [projectData EXCEPT !.toleranceMode = mode]
        /\ UNCHANGED <<activeTab, alertShown, jsonFile, tabVars, notesDialog, csvContent, engineVars>>

handleAddDirection ==
    /\ Len(projectData.directions) < MaxDirections
    /\ projectData' = [projectData EXCEPT !.directions = Append(@, [items |-> <<>>])]
    /\ activeTab' = Len(projectData.directions)
    /\ UNCHANGED <<alertShown, jsonFile, tabVars, notesDialog, csvContent, engineVars>>

\* handleDeleteDirection without its check of directions.length
handleDeleteDirection_Unguarded ==
    /\ \E k \in 1..Len(projectData.directions) :
          projectData' = [projectData EXCEPT !.directions = RemoveAt(@, k)]
    /\ activeTab' = IF activeTab >= Len(projectData.directions) - 1
                    THEN Max2(0, activeTab - 1) ELSE activeTab
    /\ UNCHANGED <<alertShown, jsonFile, tabVars, notesDialog, csvContent, engineVars>>

\* handleDeleteDirection with more than one direction
handleDeleteDirection ==
    /\ Len(projectData.directions) > 1
    /\ \E k \in 1..Len(projectData.directions) :
          projectData' = [projectData EXCEPT !.directions = RemoveAt(@, k)]
    /\ activeTab' = IF activeTab >= Len(projectData.directions) - 1
                    THEN Max2(0, activeTab - 1) ELSE activeTab
    /\ UNCHANGED <<alertShown, jsonFile, tabVars, notesDialog, csvContent, engineVars>>

\* handleDeleteDirection on the last direction: alert and return
handleDeleteLastDirection ==
    /\ Len(projectData.directions) <= 1
    /\ alertShown' = TRUE
    /\ UNCHANGED <<projectData, activeTab, jsonFile, tabVars, notesDialog, csvContent, engineVars>>

handleDuplicateDirection ==
    /\ Len(projectData.directions) < MaxDirections
    /\ \E k \in 1..Len(projectData.directions) :
          /\ TotalItems(projectData.directions) + Len(projectData.directions[k].items) <= MaxRows
          /\ projectData' = [projectData EXCEPT
                                !.directions = Append(@, projectData.directions[k])]
    /\ activeTab' = Len(projectData.directions)
    /\ UNCHANGED <<alertShown, jsonFile, tabVars, notesDialog, csvContent, engineVars>>

\* Tabs onChange
SelectTab ==
    /\ \E k \in 0..(Len(projectData.directions) - 1) : activeTab' = k
    /\ UNCHANGED <<projectData, alertShown, jsonFile, tabVars, notesDialog, csvContent, engineVars>>

handleAddItem ==
    /\ TabShown
    /\ TotalItems(projectData.directions) < MaxRows
    /\ ItemsChange(Append(ShownItems, NewItem))

handleDeleteItem ==
    /\ TabShown
    /\ \E j \in 1..Len(ShownItems) : ItemsChange(RemoveAt(ShownItems, j))

handleDuplicateItem ==
    /\ TabShown
    /\ TotalItems(projectData.directions) < MaxRows
    /\ \E j \in 1..Len(ShownItems) : ItemsChange(InsertAfter(ShownItems, j, ShownItems[j]))

\* handleItemChange(id, field, value) for one of the two tolerance fields
ChangedItem(item, field, value) ==
    IF projectData.toleranceMode = "symmetric" /\ field = "tolerancePlus"
    THEN [item EXCEPT !.tolerancePlus = value, !.toleranceMinus = value]
    ELSE [item EXCEPT ![field] = value]

\* a text is typed into a tolerance field of the table; the minus field is
\* there in asymmetric mode only
handleItemChange ==
    /\ TabShown
    /\ \E j \in 1..Len(ShownItems), text \in TypedTexts,
          field \in {"tolerancePlus", "toleranceMinus"} :
          /\ field = "toleranceMinus" => projectData.toleranceMode = "asymmetric"
          /\ ItemsChange([ShownItems EXCEPT
                             ![j] = ChangedItem(@, field, ParseFloatOrZero(text))])

\* one row of a CSV file, as generatePreview makes an item of it
PreviewItem(plusText, minusText) ==
    LET tolerancePlus == ParseCell(plusText)
        toleranceMinus == IF projectData.toleranceMode = "symmetric"
                          THEN tolerancePlus ELSE ParseCell(minusText)
    IN  [tolerancePlus |-> tolerancePlus, toleranceMinus |-> toleranceMinus,
         floatFactor |-> FIXED]

\* a one-row CSV file is imported: handleCSVImport appends its item
handleCSVImport ==
    /\ TabShown
    /\ TotalItems(projectData.directions) < MaxRows
    /\ \E plusText \in TypedTexts, minusText \in TypedTexts :
          ItemsChange(Append(ShownItems, PreviewItem(plusText, minusText)))

\* the operations on the tolerance table and the mode switch
NextEdit ==
    \/ handleToleranceModeChange
    \/ handleAddItem
    \/ handleDeleteItem
    \/ handleDuplicateItem
    \/ handleItemChange

NextApp ==
    \/ NextEdit
    \/ handleCSVImport
    \/ handleAddDirection
    \/ handleDeleteDirection
    \/ handleDeleteLastDirection
    \/ handleDuplicateDirection
    \/ SelectTab

SpecEdit == InitApp /\ [][NextEdit]_vars

SpecApp == InitApp /\ [][NextApp]_vars

----------------------------------------------------------------------------
(* ToleranceTable.tsx: the item-details dialog *)

\* texts typed into the Notes and the Source Reference fields
NoteTexts == {"", "see DWG-1"}

SourceTexts == {"", "DWG-1"}

\* item.notes || '' and item.source || ''
TextOf(item, field) == IF HasField(item, field) THEN item[field] ELSE ""

\* { ...item, [field]: value }
WithField(item, field, value) ==
    [f \in DOMAIN item \cup {field} |-> IF f = field THEN value ELSE item[f]]

\* the argument handleItemChange(id, field, value) passes to onItemsChange,
\* computed from the items the table was rendered with
ItemsWith(its, j, field, value) == [its EXCEPT ![j] = WithField(@, field, value)]

\* handleItemsChange -> handleDirectionChange on the project the handlers were
\* rendered with: the project that setProjectData is given
ProjectWith(project, newItems) ==
    [project EXCEPT !.directions[activeTab + 1].items = newItems]

\* the details button of a row
handleOpenNotes ==
    /\ TabShown
    /\ ~notesDialog.open
    /\ \E j \in 1..Len(ShownItems) :
          notesDialog' = [open |-> TRUE, editingItem |-> j,
                          editNotes |-> TextOf(ShownItems[j], "notes"),
                          editSource |-> TextOf(ShownItems[j], "source")]
    /\ UNCHANGED <<projectData, activeTab, alertShown, jsonFile, tabVars, csvContent, engineVars>>

\* a text is typed into the Notes field
setEditNotes ==
    /\ notesDialog.open
    /\ \E text \in NoteTexts : notesDialog' = [notesDialog EXCEPT !.editNotes = text]
    /\ UNCHANGED <<projectData, activeTab, alertShown, jsonFile, tabVars, csvContent, engineVars>>

\* a text is typed into the Source Reference field
setEditSource ==
    /\ notesDialog.open
    /\ \E text \in SourceTexts : notesDialog' = [notesDialog EXCEPT !.editSource = text]
    /\ UNCHANGED <<projectData, activeTab, alertShown, jsonFile, tabVars, csvContent, engineVars>>

\* Save: two handleItemChange calls in one event. Both take items and
\* projectData from the same render, and setProjectData is given a value, not
\* an updater: the project of the second call is the one that is kept.
handleSaveNotes ==
    /\ notesDialog.open
    /\ LET afterNotes == ProjectWith(projectData,
                             ItemsWith(ShownItems, notesDialog.editingItem, "notes",
                                       notesDialog.editNotes))
           afterSource == ProjectWith(projectData,
                              ItemsWith(ShownItems, notesDialog.editingItem, "source",
                                        notesDialog.editSource))
       IN  projectData' = afterSource
    /\ notesDialog' = [notesDialog EXCEPT !.open = FALSE]
    /\ UNCHANGED <<activeTab, alertShown, jsonFile, tabVars, csvContent, engineVars>>

\* Cancel, or a click outside the dialog
CloseNotes ==
    /\ notesDialog.open
    /\ notesDialog' = [notesDialog EXCEPT !.open = FALSE]
    /\ UNCHANGED <<projectData, activeTab, alertShown, jsonFile, tabVars, csvContent, engineVars>>

\* a row is added while the dialog is closed
AddRow == ~notesDialog.open /\ handleAddItem

NextNotes ==
    \/ AddRow
    \/ handleOpenNotes
    \/ setEditNotes
    \/ setEditSource
    \/ handleSaveNotes
    \/ CloseNotes

SpecNotes == InitApp /\ [][NextNotes]_vars

----------------------------------------------------------------------------
(* fileHandlers.ts: exportToCSV *)

\* An editor tolerance counts halves and a float factor hundredths, so a
\* contribution counts 1/200; toFixed(4) writes it in ten-thousandths.
ToFixed4(x) == 50 * x

\* the items with their ids: the id is the position
Identified(its) == [k \in 1..Len(its) |-> WithField(its[k], "id", k)]

calculateRSS(its) == calculateTolerance(Identified(its), "rss")

\* item.isFloat, undefined when the item has no such field
IsFloatFlag(item) == HasField(item, "isFloat") /\ item.isFloat

\* the row exportToCSV writes for one item
CsvRow(item, toleranceMode) ==
    LET floatFactor == IF IsFloatFlag(item) THEN SQRT3 ELSE FIXED
    IN  IF toleranceMode = "symmetric"
        THEN [tolerance |-> item.tolerancePlus,
              float |-> IF IsFloatFlag(item) THEN "Yes" ELSE "No",
              contribution |-> ToFixed4(item.tolerancePlus * floatFactor)]
        ELSE [tolerancePlus |-> item.tolerancePlus,
              toleranceMinus |-> item.toleranceMinus,
              float |-> IF IsFloatFlag(item) THEN "Yes" ELSE "No",
              contributionPlus |-> ToFixed4(item.tolerancePlus * floatFactor),
              contributionMinus |-> ToFixed4(item.toleranceMinus * floatFactor)]

\* rssResult is null: no result lines are written
NoLines == [none |-> TRUE]

\* the RSS result lines of one stack; none for a stack without items
RssLines(its, toleranceMode) ==
    IF Len(its) > 0
    THEN LET exported == calculateRSS(its)
         IN  IF toleranceMode = "symmetric"
             THEN [both |-> ToFixed4(exported.totalPlus)]
             ELSE [both |-> ToFixed4(exported.totalPlus),
                   plus |-> ToFixed4(exported.totalPlus),
                   minus |-> ToFixed4(exported.totalMinus)]
    ELSE NoLines

\* the item rows and the result lines that exportToCSV writes, stack by stack
exportToCSV(data) ==
    [k \in 1..Len(data.directions) |->
        [rows |-> [j \in 1..Len(data.directions[k].items) |->
                      CsvRow(data.directions[k].items[j], data.toleranceMode)],
         result |-> RssLines(data.directions[k].items, data.toleranceMode)]]

\* the Export CSV button
handleExportCSV ==
    /\ csvContent' = exportToCSV(projectData)
    /\ UNCHANGED <<projectData, activeTab, alertShown, jsonFile, tabVars, notesDialog,
                   engineVars>>

\* the Float checkbox of a row
handleFloatChange ==
    /\ TabShown
    /\ \E j \in 1..Len(ShownItems), checked \in BOOLEAN :
          ItemsChange([ShownItems EXCEPT
                          ![j] = ChangedItem(@, "floatFactor",
                                             IF checked THEN SQRT3 ELSE FIXED)])

NextExport ==
    \/ handleAddItem
    \/ handleFloatChange
    \/ handleToleranceModeChange
    \/ handleExportCSV

SpecExport == InitApp /\ [][NextExport]_vars

----------------------------------------------------------------------------
(* DirectionTab.tsx: the recalculation effect and its deferred callbacks *)

RECURSIVE RunLoop(_, _, _, _)
\* n iterations of the simulation loop; run carries stackSamples,
\* itemSamplesMap, the generator and the bookkeeping
RunLoop(its, useAdvanced, run, n) ==
    IF n <= 0 THEN run
    ELSE LET acc == SampleItems(its,
                        [totalDeviation |-> 0, map |-> run.map, rng |-> run.rng,
                         draws |-> run.draws, finite |-> run.finite],
                        useAdvanced)
         IN  RunLoop(its, useAdvanced,
                     [stackSamples |-> Append(run.stackSamples, acc.totalDeviation),
                      map |-> acc.map, rng |-> acc.rng,
                      draws |-> acc.draws, finite |-> acc.finite],
                     n - 1)

\* runMonteCarloSimulation(its, id, name, mcSettings, upper, lower) as one
\* step: the result or the error, and Math.random() after the call
runMonteCarloSimulation(its, mcSettings, upper, lower, g) ==
    LET run == RunLoop(its, mcSettings.useAdvancedDistributions,
                       [stackSamples |-> <<>>, map |-> [id \in ItemIds(its) |-> <<>>],
                        rng |-> g, draws |-> 0, finite |-> TRUE],
                       mcSettings.iterations)
    IN  [outcome |-> IF SummaryThrows(its, run.stackSamples, run.map, run.finite)
                     THEN TypeError
                     ELSE Summary(its, mcSettings.iterations, run.stackSamples, run.map,
                                  upper, lower),
         rng |-> run.rng]

\* the RSSResult that the deferred callback wraps a MonteCarloResult in
WrappedResult(result) ==
    LET threeSigma == Times(result.percentiles.stdDev, 3)
    IN  [totalPlus |-> threeSigma,
         totalMinus |-> threeSigma,
         itemContributions |->
             [k \in 1..Len(result.itemContributions) |->
                 [itemId |-> result.itemContributions[k].itemId,
                  contributionPlus |-> result.itemContributions[k].mean,
                  contributionMinus |-> result.itemContributions[k].mean]],
         monteCarloResult |-> result]

\* the stacks a direction is edited through: no item, a floating item of
\* either tolerance, or a fixed item of tolerance 0
TabStacks ==
    {<<>>} \cup {WithIds(<<item>>) :
                    item \in {[id |-> 0, tolerancePlus |-> t, toleranceMinus |-> t,
                               floatFactor |-> SQRT3] : t \in {3, 6}}
                              \cup {[id |-> 0, tolerancePlus |-> 0, toleranceMinus |-> 0,
                                     floatFactor |-> FIXED]}}

\* DirectionTab is mounted on a direction without items and without limits;
\* its effect has run once and set rssResult to null
InitTab ==
    /\ items = <<>>
    /\ calculationMode \in {"rss", "worstCase", "monteCarlo"}
    /\ rssResult = NoResult
    /\ isCalculating = FALSE
    /\ timers = <<>>
    /\ settings = [iterations |-> MaxIter, useAdvancedDistributions |-> FALSE]
    /\ rng \in [pattern : RngPatterns, pos : {0}]
    /\ usl = Undefined
    /\ lsl = Undefined
    /\ pc = "start"
    /\ prevResult = NoResult
    /\ lastEdit = NoEdit
    /\ i = 0
    /\ stackSamples = <<>>
    /\ itemSamplesMap = <<>>
    /\ mcStats = [draws |-> 0, finite |-> TRUE]
    /\ mcResult = NoResult
    /\ firstOutcome = NoResult
    /\ NoAnalysis
    /\ projectData = InitialProject
    /\ activeTab = 0
    /\ alertShown = FALSE
    /\ jsonFile = NoFile
    /\ notesDialog = ClosedDialog
    /\ csvContent = NoCsv

\* what the effect leaves untouched
TabFrame ==
    UNCHANGED <<pc, prevResult, lastEdit, settings, usl, lsl, rng, i, stackSamples,
                itemSamplesMap, mcStats, mcResult, firstOutcome, capVars,
                projectData, activeTab, alertShown, jsonFile, notesDialog, csvContent>>

\* the body of useEffect, run for the direction and the mode just rendered
RunEffect(its, mode) ==
    IF Len(its) > 0
    THEN IF mode = "monteCarlo"
         THEN /\ isCalculating' = TRUE
              /\ timers' = Append(timers, [items |-> its, settings |-> settings,
                                           usl |-> usl, lsl |-> lsl])
              /\ UNCHANGED rssResult
         ELSE /\ rssResult' = calculateTolerance(its, mode)
              /\ UNCHANGED <<isCalculating, timers>>
    ELSE /\ rssResult' = NoResult
         /\ UNCHANGED <<isCalculating, timers>>

\* the items of the direction are edited; the effect runs
ItemsEdited ==
    /\ Len(timers) < MaxPending
    /\ \E its \in TabStacks :
          /\ its # items
          /\ items' = its
          /\ RunEffect(its, calculationMode)
    /\ UNCHANGED calculationMode
    /\ TabFrame

\* the calculation mode is changed; the effect runs
ModeChanged ==
    /\ Len(timers) < MaxPending
    /\ \E mode \in {"rss", "worstCase", "monteCarlo"} :
          /\ mode # calculationMode
          /\ calculationMode' = mode
          /\ RunEffect(items, mode)
    /\ UNCHANGED items
    /\ TabFrame

\* the call the oldest pending callback makes
OldestCall ==
    runMonteCarloSimulation(Head(timers).items, Head(timers).settings,
                            Head(timers).usl, Head(timers).lsl, rng)

\* the oldest pending callback runs and delivers its result
TimerFires ==
    /\ timers # <<>>
    /\ OldestCall.outcome # TypeError
    /\ rssResult' = WrappedResult(OldestCall.outcome)
    /\ isCalculating' = FALSE
    /\ timers' = Tail(timers)
    /\ rng' = OldestCall.rng
    /\ UNCHANGED <<items, calculationMode, pc, prevResult, lastEdit, settings, usl, lsl,
                   i, stackSamples, itemSamplesMap, mcStats, mcResult, firstOutcome,
                   capVars, projectData, activeTab, alertShown, jsonFile, notesDialog, csvContent>>

\* the oldest pending callback runs and runMonteCarloSimulation throws: the
\* two setters after the call are not reached
TimerThrows ==
    /\ timers # <<>>
    /\ OldestCall.outcome = TypeError
    /\ timers' = Tail(timers)
    /\ rng' = OldestCall.rng
    /\ UNCHANGED <<items, calculationMode, rssResult, isCalculating, pc, prevResult,
                   lastEdit, settings, usl, lsl, i, stackSamples, itemSamplesMap,
                   mcStats, mcResult, firstOutcome, capVars, projectData, activeTab,
                   alertShown, jsonFile, notesDialog, csvContent>>

NextTab == ItemsEdited \/ ModeChanged \/ TimerFires \/ TimerThrows

SpecTab == InitTab /\ [][NextTab]_vars

----------------------------------------------------------------------------
(* Loading a project: FileControls.tsx, fileHandlers.ts, App.tsx *)

\* importFromJSON: the basic validation
ValidProjectData(data) == HasField(data, "toleranceMode") /\ HasField(data, "directions")

\* the floatFactor that importFromJSON gives an item
MigratedFloatFactor(item) ==
    IF HasField(item, "floatFactor") THEN item.floatFactor
    ELSE IF HasField(item, "isFloat") /\ item.isFloat THEN SQRT3 ELSE FIXED

\* MigratedItem with the legacy flag ignored
MigratedItem_FlagIgnored(item) ==
    [f \in DOMAIN item \cup {"floatFactor"} |->
        CASE f = "tolerancePlus" -> Max2(0, item.tolerancePlus)
          [] f = "toleranceMinus" -> Max2(0, item.toleranceMinus)
          [] f = "floatFactor" -> IF HasField(item, "floatFactor") THEN item.floatFactor
                                  ELSE FIXED
          [] OTHER -> item[f]]

\* importFromJSON: the callback of dir.items.map; the other fields of the
\* item, isFloat included, are copied by the spread
MigratedItem(item) ==
    [f \in DOMAIN item \cup {"floatFactor"} |->
        CASE f = "tolerancePlus" -> Max2(0, item.tolerancePlus)
          [] f = "toleranceMinus" -> Max2(0, item.toleranceMinus)
          [] f = "floatFactor" -> MigratedFloatFactor(item)
          [] OTHER -> item[f]]

\* the project importFromJSON resolves to, for valid data
importFromJSON(data) ==
    [toleranceMode |-> data.toleranceMode,
     directions |-> [k \in 1..Len(data.directions) |->
                        [items |-> [j \in 1..Len(data.directions[k].items) |->
                                       MigratedItem(data.directions[k].items[j])]]]]

\* handleFileChange with a file that importFromJSON accepts: handleLoadProject
\* takes the project and selects the first tab
handleFileChange ==
    /\ jsonFile # NoFile
    /\ ValidProjectData(jsonFile)
    /\ projectData' = importFromJSON(jsonFile)
    /\ activeTab' = 0
    /\ UNCHANGED <<alertShown, jsonFile, tabVars, notesDialog, csvContent, engineVars>>

\* handleFileChange with a file that importFromJSON rejects: an error message
\* is shown and the project stays
handleFileChangeRejected ==
    /\ jsonFile # NoFile
    /\ ~ValidProjectData(jsonFile)
    /\ UNCHANGED vars

\* items as files hold them: written by this version (floatFactor), by an
\* earlier one (isFloat, or neither field), or carrying both fields; a
\* tolerance is negative when it was typed so
FileItems ==
    UNION {{[tolerancePlus |-> p, toleranceMinus |-> m],
            [tolerancePlus |-> p, toleranceMinus |-> m, isFloat |-> TRUE],
            [tolerancePlus |-> p, toleranceMinus |-> m, isFloat |-> FALSE],
            [tolerancePlus |-> p, toleranceMinus |-> m, floatFactor |-> FIXED],
            [tolerancePlus |-> p, toleranceMinus |-> m, floatFactor |-> SQRT3],
            [tolerancePlus |-> p, toleranceMinus |-> m, floatFactor |-> FIXED,
             isFloat |-> TRUE]} : p \in {0 - 1, 1}, m \in {0, 1}}

\* a file without the directions field
BrokenFile == [toleranceMode |-> "symmetric"]

\* files of one direction
MigrationFiles ==
    {[toleranceMode |-> "asymmetric", directions |-> <<[items |-> l]>>] :
        l \in ListsOf(FileItems, MaxRows)} \cup {BrokenFile}

\* files of any number of directions, none included
ProjectFiles ==
    {[toleranceMode |-> "asymmetric", directions |-> [k \in 1..n |-> [items |-> <<>>]]] :
        n \in 0..MaxDirections} \cup {BrokenFile}

InitLoadOf(files) ==
    /\ projectData = InitialProject
    /\ activeTab = 0
    /\ alertShown = FALSE
    /\ NoTimers
    /\ jsonFile \in files
    /\ notesDialog = ClosedDialog
    /\ csvContent = NoCsv
    /\ NoEngine

InitLoad == InitLoadOf(MigrationFiles)

InitProject == InitLoadOf(ProjectFiles)

NextLoad == handleFileChange \/ handleFileChangeRejected

NextProject == NextApp \/ NextLoad

SpecLoad == InitLoad /\ [][NextLoad]_vars

SpecProject == InitProject /\ [][NextProject]_vars

----------------------------------------------------------------------------
(* Monte Carlo engine: properties *)

ZeroTolerance(item) == item.tolerancePlus = 0 /\ item.toleranceMinus = 0

\* the stack without its zero-tolerance items
RECURSIVE WithoutZero(_)
WithoutZero(its) ==
    IF its = <<>> THEN <<>>
    ELSE IF ZeroTolerance(Head(its)) THEN WithoutZero(Tail(its))
         ELSE <<Head(its)>> \o WithoutZero(Tail(its))

RECURSIVE LoopSamples(_, _, _, _)
\* the stack samples of n loop iterations on the stack its, Math.random()
\* starting from g
LoopSamples(its, useAdvanced, g, n) ==
    IF n = 0 THEN <<>>
    ELSE LET acc == SampleItems(its,
                        [totalDeviation |-> 0, map |-> [id \in ItemIds(its) |-> <<>>],
                         rng |-> g, draws |-> 0, finite |-> TRUE],
                        useAdvanced)
         IN  <<acc.totalDeviation>> \o LoopSamples(its, useAdvanced, acc.rng, n - 1)

SameTotals(r, q) ==
    /\ r.totalPlus = q.totalPlus
    /\ r.totalMinus = q.totalMinus
    /\ r.worstCasePlus = q.worstCasePlus
    /\ r.worstCaseMinus = q.worstCaseMinus

\* C5: an item with tolerancePlus = toleranceMinus = 0 contributes 0 to the
\* RSS and worst-case totals, every sample drawn for it is 0 whatever its
\* distribution, and it takes no value from Math.random(): for every stack a
\* run has ended on, the totals and the stack samples are those of the stack
\* without the item.
C5_ZeroToleranceIdempotent ==
    LET without == WithoutZero(items)
        rss == calculateTolerance(items, "rss")
        worstCase == calculateTolerance(items, "worstCase")
    IN  /\ \A k \in 1..Len(items) :
              ZeroTolerance(items[k]) =>
                \A j \in 1..Len(itemSamplesMap[items[k].id]) :
                    itemSamplesMap[items[k].id][j] = 0
        /\ pc # "loop" =>
              /\ \A k \in 1..Len(items) :
                    ZeroTolerance(items[k]) =>
                      /\ rss.itemContributions[k].contributionPlus = 0
                      /\ rss.itemContributions[k].contributionMinus = 0
                      /\ worstCase.itemContributions[k].contributionPlus = 0
                      /\ worstCase.itemContributions[k].contributionMinus = 0
              /\ SameTotals(rss, calculateTolerance(without, "rss"))
              /\ SameTotals(worstCase, calculateTolerance(without, "worstCase"))
              /\ stackSamples = LoopSamples(without, settings.useAdvancedDistributions,
                                            RngAtEntry, i)

C5_Witness ==
    /\ pc # "loop" /\ i = MaxIter /\ Len(items) = 2
    /\ settings.useAdvancedDistributions
    /\ ZeroTolerance(items[1])
    /\ HasField(items[1], "distributionType")
    /\ items[2].tolerancePlus > 0
    /\ \A j \in 1..MaxIter : itemSamplesMap[1][j] = 0
    /\ stackSamples[1] # 0 /\ stackSamples[2] # 0 /\ stackSamples[1] # stackSamples[2]

RECURSIVE SumOfCounts(_, _)
SumOfCounts(bins, k) == IF k = 0 THEN 0 ELSE SumOfCounts(bins, k - 1) + bins[k].count

RECURSIVE SumOfFrequencies(_, _)
\* the numerators of the frequencies, all over the same sample count
SumOfFrequencies(bins, k) ==
    IF k = 0 THEN 0 ELSE SumOfFrequencies(bins, k - 1) + bins[k].frequency.num

Conserved(bins, numBins, n) ==
    /\ Len(bins) = numBins
    /\ SumOfCounts(bins, numBins) = n
    /\ SumOfFrequencies(bins, numBins) = n
    /\ \A b \in 1..numBins : bins[b].frequency.den = n

\* the histograms of a returned result conserve the samples
ReturnedHistogramsConserved ==
    (pc = "returned" /\ settings.iterations >= 1) =>
        /\ Conserved(mcResult.histogram, 50, settings.iterations)
        /\ \A id \in ItemIds(items) :
              Conserved(mcResult.itemHistograms[id], 30, settings.iterations)

\* C6: every run of at least one iteration, a run whose samples are all
\* equal included, returns a 50-bin stack histogram and 30-bin item
\* histograms whose counts sum to iterations and whose frequencies sum to 1.
C6_HistogramConservation ==
    (pc \in {"returned", "threw"} /\ settings.iterations >= 1 /\ mcStats.finite) =>
        /\ pc = "returned"
        /\ ReturnedHistogramsConserved

\* C7: with at least 100 samples the reported percentiles are ordered,
\* p5 <= p50 <= p95 <= p99, and each is one of the samples.
C7_PercentilesOrdered ==
    (pc = "returned" /\ Len(mcResult.samples) >= 100) =>
        LET q == mcResult.percentiles
        IN  /\ \A f \in {"p5", "p50", "p95", "p99"} :
                  IsNum(q[f]) /\ q[f].num \in Range(mcResult.samples)
            /\ q.p5.num <= q.p50.num
            /\ q.p50.num <= q.p95.num
            /\ q.p95.num <= q.p99.num

C7_Witness ==
    /\ pc = "returned" /\ Len(mcResult.samples) >= 100
    /\ mcResult.percentiles.p5.num < mcResult.percentiles.p50.num
    /\ mcResult.percentiles.p50.num < mcResult.percentiles.p99.num

\* C8: a second call with the same items, limits and settings, the seed
\* included, returns the result of the first call.
C8_SeededReproducible ==
    (pc = "returned" /\ firstOutcome # NoResult /\ firstOutcome # TypeError) =>
        mcResult = firstOutcome

\* C9: a call with iterations <= 0 ends in an error; no result is returned.
C9_NonPositiveIterationsRejected ==
    (settings.iterations <= 0 /\ pc # "loop") => pc = "threw"

\* C10: a call with an empty item list and iterations >= 1 does not throw.
C10_EmptyStackDoesNotThrow ==
    (items = <<>> /\ settings.iterations >= 1) => pc # "threw"

----------------------------------------------------------------------------
(* Deterministic aggregator: properties *)

RECURSIVE SumOfContributions(_, _, _)
\* sum over items 1..k of tolerance_i * floatFactor_i on one side
SumOfContributions(its, side, k) ==
    IF k = 0 THEN 0
    ELSE SumOfContributions(its, side, k - 1) + its[k][side] * its[k].floatFactor

RECURSIVE SumOfSquaredContributions(_, _, _)
\* sum over items 1..k of (tolerance_i * floatFactor_i)^2 on one side
SumOfSquaredContributions(its, side, k) ==
    IF k = 0 THEN 0
    ELSE SumOfSquaredContributions(its, side, k - 1)
         + (its[k][side] * its[k].floatFactor) * (its[k][side] * its[k].floatFactor)

\* r is sqrt(n) rounded to the nearest count
IsRoundedRoot(r, n) == r >= 0 /\ r * r - r < n + (IF n = 0 THEN 1 ELSE 0) /\ n <= r * r + r

Contributing(its, side) == {k \in 1..Len(its) : its[k][side] # 0}

\* C1: in 'rss' mode each side's total is the square root of the sum of the
\* squared (tolerance * floatFactor) of that side; the factor multiplies the
\* tolerance before squaring and the two sides are computed separately.
C1_RssFormula ==
    (pc = "returned" /\ calculationMode = "rss") =>
        /\ IsRoundedRoot(rssResult.totalPlus,
                         SumOfSquaredContributions(items, "tolerancePlus", Len(items)))
        /\ IsRoundedRoot(rssResult.totalMinus,
                         SumOfSquaredContributions(items, "toleranceMinus", Len(items)))

C1_Witness ==
    /\ pc = "returned" /\ calculationMode = "rss" /\ Len(items) = 2
    /\ \A k \in 1..2 : items[k].floatFactor = SQRT3 /\ items[k].tolerancePlus > 0
    /\ rssResult.totalPlus # rssResult.totalMinus
    /\ rssResult.totalMinus > 0

\* C2: the worst-case sums of both sides are returned whatever the mode, and
\* in 'worstCase' mode the totals are these sums.
C2_WorstCaseAlways ==
    pc = "returned" =>
        /\ rssResult.worstCasePlus = SumOfContributions(items, "tolerancePlus", Len(items))
        /\ rssResult.worstCaseMinus = SumOfContributions(items, "toleranceMinus", Len(items))
        /\ calculationMode = "worstCase" =>
              /\ rssResult.totalPlus = SumOfContributions(items, "tolerancePlus", Len(items))
              /\ rssResult.totalMinus = SumOfContributions(items, "toleranceMinus", Len(items))

C2_Witness ==
    /\ pc = "returned" /\ calculationMode = "worstCase" /\ Len(items) = 2
    /\ rssResult.totalPlus = rssResult.worstCasePlus
    /\ rssResult.totalPlus > rssResult.totalMinus
    /\ rssResult.totalMinus > 0

EditedTotal(r) == IF lastEdit.side = "tolerancePlus" THEN r.totalPlus ELSE r.totalMinus

EditedWorstCase(r) ==
    IF lastEdit.side = "tolerancePlus" THEN r.worstCasePlus ELSE r.worstCaseMinus

\* C4: raising one item's tolerance, all else fixed, never lowers the total
\* (RSS or worst-case, as selected) nor the worst-case sum of that side.
C4_Monotone ==
    lastEdit # NoEdit =>
        /\ EditedTotal(rssResult) >= EditedTotal(prevResult)
        /\ EditedWorstCase(rssResult) >= EditedWorstCase(prevResult)

C4_Witness ==
    /\ lastEdit # NoEdit /\ calculationMode = "rss" /\ Len(items) = 2
    /\ EditedTotal(prevResult) > 0
    /\ EditedTotal(rssResult) > EditedTotal(prevResult)
    /\ EditedWorstCase(rssResult) > EditedWorstCase(prevResult)

----------------------------------------------------------------------------
(* Capability analysis: properties *)

\* distance of two numbers of the same binade, in units of the last place
UlpDistance(a, b) ==
    IF IsFlt(a) /\ IsFlt(b) /\ a.e = b.e THEN Abs(a.m - b.m) ELSE Pow2(MantissaBits)

FedBackTarget == IF fedBack = "1.33" THEN Literal(133, 100) ELSE Literal(166, 100)

RoundTripDone == pc = "returned" /\ fedBack # "none" /\ targetBudget # FZero

\* C11 as stated: with a required 3-sigma value of a positive limit fed back
\* in as the RSS total, currentCpk equals the target (1.33 or 1.66), and the
\* required values are those of the first analysis.
C11_RoundTripExact ==
    RoundTripDone =>
        /\ statistical.currentCpk = FedBackTarget
        /\ statistical.required3SigmaFor1_33Cpk = firstStatistical.required3SigmaFor1_33Cpk
        /\ statistical.required3SigmaFor1_66Cpk = firstStatistical.required3SigmaFor1_66Cpk

\* C11, amended: with a required 3-sigma value of a positive limit fed back in
\* as the RSS total, currentCpk is the target (1.33 or 1.66) to within the
\* rounding of the four operations, 3 units of the last place, and the
\* required values are those of the first analysis: they depend on the limit
\* only.
C11_RoundTripWithinRounding ==
    RoundTripDone =>
        /\ UlpDistance(statistical.currentCpk, FedBackTarget) <= 3
        /\ statistical.required3SigmaFor1_33Cpk = firstStatistical.required3SigmaFor1_33Cpk
        /\ statistical.required3SigmaFor1_66Cpk = firstStatistical.required3SigmaFor1_66Cpk

C11_Witness ==
    /\ RoundTripDone
    /\ fedBack = "1.33"
    /\ rssValue # firstStatistical.current3Sigma
    /\ statistical.currentCpk # firstStatistical.currentCpk
    /\ UlpDistance(statistical.currentCpk, FedBackTarget) = 1

ZeroTotalAnalysed ==
    pc # "start" /\ fedBack = "none" /\ rssValue = FZero /\ targetBudget # FZero

\* C12: with an RSS total of 0 and a positive limit the analysis returns,
\* currentCpk is positive infinity, currentYield is 100 percent, and no field
\* of the block is NaN.
C12_ZeroTotalSentinel ==
    ZeroTotalAnalysed =>
        /\ pc = "returned"
        /\ statistical.currentCpk = PosInfinity
        /\ statistical.currentYield = Num(10000)
        /\ \A f \in DOMAIN statistical : statistical[f] # NaN
        /\ IsFlt(statistical.required3SigmaFor1_33Cpk)
        /\ IsFlt(statistical.required3SigmaFor1_66Cpk)

C12_Witness ==
    /\ ZeroTotalAnalysed
    /\ pc = "returned"
    /\ statistical.current3Sigma = FZero
    /\ statistical.currentCpk = PosInfinity

----------------------------------------------------------------------------
(* Monte Carlo engine: accumulation, risk analysis, selection, summary *)

RECURSIVE WeightedSampleSum(_, _)
\* sum over the first k items of (the n-th sample of the item * its floatFactor)
WeightedSampleSum(n, k) ==
    IF k = 0 THEN 0
    ELSE WeightedSampleSum(n, k - 1)
         + itemSamplesMap[items[k].id][n] * items[k].floatFactor

RECURSIVE CountBeyond(_, _, _)
\* how many of the first k stack samples lie strictly beyond the limit
CountBeyond(limit, above, k) ==
    IF limit = Undefined \/ k = 0 THEN 0
    ELSE CountBeyond(limit, above, k - 1)
         + (IF (above /\ stackSamples[k] > limit.num) \/ (~above /\ stackSamples[k] < limit.num)
            THEN 1 ELSE 0)

\* C14: a returned result has a riskAnalysis block exactly when usl or lsl is
\* supplied; in it (iterations >= 1) probabilityExceedingUSL is the number of
\* stack samples strictly above usl over iterations, probabilityExceedingLSL
\* the number strictly below lsl over iterations, 0 for an absent limit,
\* probabilityOutOfSpec their sum and expectedDefectRate that sum * 1,000,000.
C14_EmpiricalRisk ==
    (pc = "returned") =>
        IF usl = Undefined /\ lsl = Undefined
        THEN mcResult.riskAnalysis = Undefined
        ELSE /\ mcResult.riskAnalysis # Undefined
             /\ settings.iterations >= 1 =>
                   LET n == settings.iterations
                       above == CountBeyond(usl, TRUE, n)
                       below == CountBeyond(lsl, FALSE, n)
                       risk == mcResult.riskAnalysis
                   IN  /\ risk.probabilityExceedingUSL = [num |-> above, den |-> n]
                       /\ risk.probabilityExceedingLSL = [num |-> below, den |-> n]
                       /\ risk.probabilityOutOfSpec = [num |-> above + below, den |-> n]
                       /\ risk.expectedDefectRate = Num(RoundDiv((above + below) * 1000000, n))

C14_Witness ==
    /\ pc = "returned"
    /\ usl = Num(0) /\ lsl = Num(0 - 300)
    /\ \E n \in 1..Len(stackSamples) : stackSamples[n] = 0
    /\ \E n \in 1..Len(stackSamples) : stackSamples[n] < 0 - 300
    /\ mcResult.riskAnalysis.probabilityExceedingUSL.num = 0
    /\ mcResult.riskAnalysis.probabilityExceedingLSL.num >= 1

\* the distribution the rule names for an item: its own type in advanced
\* mode, else normal for a fixed item and uniform for a floating one
NamedDistribution(item) ==
    IF settings.useAdvancedDistributions /\ HasField(item, "distributionType")
    THEN item.distributionType
    ELSE IF item.floatFactor = FIXED THEN "normal"
    ELSE IF item.floatFactor = SQRT3 THEN "uniform"
    ELSE "none"

\* C15: every item is sampled from exactly one of normal, uniform and
\* triangular: its own distributionType when useAdvancedDistributions is on
\* and it has one, otherwise normal for floatFactor 1.0 and uniform for
\* floatFactor sqrt(3), never triangular; the first sample of a one-item
\* stack is the draw of that distribution.
C15_DistributionSelection ==
    \A k \in 1..Len(items) :
        LET item == items[k]
            named == NamedDistribution(item)
        IN  /\ named \in {"normal", "uniform", "triangular"}
            /\ getDistributionType(item, settings.useAdvancedDistributions) = named
            /\ ~(settings.useAdvancedDistributions /\ HasField(item, "distributionType"))
                  => named # "triangular"
            /\ (Len(items) = 1 /\ i >= 1 /\ item.tolerancePlus > 0) =>
                  itemSamplesMap[item.id][1] =
                      SampleByType(item.tolerancePlus, named, RngAtEntry).value

C15_Witness ==
    /\ Len(items) = 1 /\ i >= 1
    /\ settings.useAdvancedDistributions
    /\ HasField(items[1], "distributionType")
    /\ items[1].distributionType = "triangular"
    /\ items[1].floatFactor = FIXED
    /\ items[1].tolerancePlus > 0
    /\ mcStats.finite
    /\ itemSamplesMap[1][1] # SampleByType(items[1].tolerancePlus, "normal", RngAtEntry).value

----------------------------------------------------------------------------
(* Project editor: properties *)

AllItems ==
    UNION {{d.items[j] : j \in 1..Len(d.items)} :
              d \in {projectData.directions[k] : k \in 1..Len(projectData.directions)}}

\* C16: every tolerance value in the project is >= 0.
C16_TolerancesNonNegative ==
    \A item \in AllItems : item.tolerancePlus >= 0 /\ item.toleranceMinus >= 0

\* C17: in symmetric mode every item has tolerancePlus = toleranceMinus.
C17_SymmetricModeEqualSides ==
    projectData.toleranceMode = "symmetric" =>
        \A item \in AllItems : item.tolerancePlus = item.toleranceMinus

\* C18: the project always has at least one direction, and the step in which
\* handleDeleteDirection refuses to delete the last one changes neither
\* projectData nor activeTab.
C18_AtLeastOneDirection ==
    /\ [](Len(projectData.directions) >= 1)
    /\ [][(~alertShown /\ alertShown') =>
             (Len(projectData.directions) = 1 /\ UNCHANGED <<projectData, activeTab>>)]_vars

C18_Witness ==
    /\ alertShown
    /\ Len(projectData.directions) = 1
    /\ TotalItems(projectData.directions) = MaxRows
    /\ projectData.toleranceMode = "asymmetric"

----------------------------------------------------------------------------
(* Monte Carlo engine: item contributions and statistics *)

\* C19: in the result of a run of at least one iteration no item's
\* percentContribution is NaN or infinite.
C19_PercentContributionFinite ==
    (pc = "returned" /\ settings.iterations >= 1) =>
        \A k \in 1..Len(mcResult.itemContributions) :
            IsNum(mcResult.itemContributions[k].percentContribution)

\* the sample of rank k, from 0, in ascending order
RankedSample(samples, k) ==
    CHOOSE v \in Range(samples) :
        /\ Cardinality({j \in 1..Len(samples) : samples[j] < v}) <= k
        /\ Cardinality({j \in 1..Len(samples) : samples[j] <= v}) > k

\* the least integer c with c >= p/100 * n
CeilPercent(p, n) == CHOOSE c \in 0..n : 100 * c >= p * n /\ 100 * (c - 1) < p * n

\* sum of the squared deviations of the samples from m
SquaredDeviations(samples, m) ==
    SumSeq([j \in 1..Len(samples) |-> (samples[j] - m) * (samples[j] - m)], Len(samples))

\* C20: the reported percentile p, for p in {5, 50, 95, 99}, is the sample of
\* rank clamp(ceil(p/100 * n) - 1, 0, n - 1) of the n samples in ascending
\* order, and stdDev is the square root of the sum of squared deviations from
\* the mean divided by n.
C20_NearestRankPopulation ==
    (pc = "returned" /\ Len(mcResult.samples) >= 1) =>
        LET samples == mcResult.samples
            n == Len(samples)
            q == mcResult.percentiles
            rank(p) == Max2(0, Min2(CeilPercent(p, n) - 1, n - 1))
        IN  /\ q.p5 = Num(RankedSample(samples, rank(5)))
            /\ q.p50 = Num(RankedSample(samples, rank(50)))
            /\ q.p95 = Num(RankedSample(samples, rank(95)))
            /\ q.p99 = Num(RankedSample(samples, rank(99)))
            /\ IsNum(q.mean) /\ IsNum(q.stdDev)
            /\ q.stdDev.num = Sqrt(RoundDiv(SquaredDeviations(samples, q.mean.num), n))

C20_Witness ==
    /\ pc = "returned"
    /\ Len(mcResult.samples) = LongRun
    /\ mcResult.percentiles.p5.num < mcResult.percentiles.p50.num
    /\ mcResult.percentiles.p50.num < mcResult.percentiles.p95.num
    /\ mcResult.percentiles.stdDev.num > 0

----------------------------------------------------------------------------
(* Monte Carlo engine: sampling *)

\* the item is sampled with the uniform or the triangular distribution
BoundedType(item) ==
    getDistributionType(item, settings.useAdvancedDistributions) \in {"uniform", "triangular"}

\* C21: every deviation that an iteration samples with the uniform or the
\* triangular distribution for an item of tolerance T > 0 lies in [-T, +T];
\* a triangular sample is <= 0 when its draw is below 1/2 and >= 0 otherwise
\* (the first item of the stack takes the iteration's first draw).
C21_SamplingRange ==
    [][(pc = "loop" /\ i' = i + 1) =>
          \A k \in 1..Len(items) :
              LET item == items[k]
                  T == item.tolerancePlus
                  v == itemSamplesMap'[item.id][i']
                  triangular == getDistributionType(item, settings.useAdvancedDistributions)
                                    = "triangular"
              IN  (T > 0 /\ BoundedType(item)) =>
                      /\ 0 - T <= v /\ v <= T
                      /\ (k = 1 /\ triangular /\ 2 * RandomValue(rng) < 4) => v <= 0
                      /\ (k = 1 /\ triangular /\ 2 * RandomValue(rng) >= 4) => v >= 0]_vars

C21_Witness ==
    /\ pc = "loop"
    /\ \E k \in 1..Len(items) :
          /\ items[k].tolerancePlus > 0
          /\ getDistributionType(items[k], settings.useAdvancedDistributions) = "uniform"
          /\ 0 - items[k].tolerancePlus \in Range(itemSamplesMap[items[k].id])
    /\ items[1].tolerancePlus > 0
    /\ getDistributionType(items[1], settings.useAdvancedDistributions) = "triangular"
    /\ i = MaxIter
    /\ \A n \in 1..i : itemSamplesMap[items[1].id][n] < 0

\* C22: a second run on items that differ from the first run's in a
\* toleranceMinus only, with the same random draws, ends as the first did,
\* with the same result.
C22_MinusSideNotRead ==
    (pc \in {"returned", "threw"} /\ firstOutcome # NoResult) => mcResult = firstOutcome

C22_Witness ==
    /\ pc = "returned"
    /\ firstOutcome # NoResult
    /\ firstOutcome # TypeError
    /\ \E k \in 1..Len(items) :
          /\ items[k].tolerancePlus = 6
          /\ items[k].toleranceMinus = 0
          /\ \E n \in 1..MaxIter : itemSamplesMap[items[k].id][n] # 0

----------------------------------------------------------------------------
(* Loading a project: properties *)

\* the item as the single item of a stack
Stacked(item) == <<[f \in DOMAIN item \cup {"id"} |-> IF f = "id" THEN 1 ELSE item[f]]>>

\* the contribution entry calculateTolerance computes for the item
RssContribution(item) == calculateTolerance(Stacked(item), "rss").itemContributions[1]

\* a file has just been loaded: every item of the project has a numeric
\* floatFactor, the file's own if it has one, else sqrt(3) for isFloat = true
\* and 1.0 otherwise
FloatFactorsMigrated ==
    \A k \in 1..Len(jsonFile.directions) :
        \A j \in 1..Len(jsonFile.directions[k].items) :
            LET legacy == jsonFile.directions[k].items[j]
                migrated == projectData'.directions[k].items[j]
            IN  /\ HasField(migrated, "floatFactor")
                /\ migrated.floatFactor \in Nat
                /\ HasField(legacy, "floatFactor") =>
                       migrated.floatFactor = legacy.floatFactor
                /\ (~HasField(legacy, "floatFactor") /\ HasField(legacy, "isFloat")
                      /\ legacy.isFloat) => migrated.floatFactor = SQRT3
                /\ (~HasField(legacy, "floatFactor")
                      /\ ~(HasField(legacy, "isFloat") /\ legacy.isFloat)) =>
                       migrated.floatFactor = FIXED

\* the items of the file for which the contribution is to be the same
SameContributions(which(_)) ==
    \A k \in 1..Len(jsonFile.directions) :
        \A j \in 1..Len(jsonFile.directions[k].items) :
            which(jsonFile.directions[k].items[j]) =>
                RssContribution(projectData'.directions[k].items[j])
                    = RssContribution(jsonFile.directions[k].items[j])

NonNegative(item) == item.tolerancePlus >= 0 /\ item.toleranceMinus >= 0

AnyItem(item) == TRUE

Loaded == jsonFile # NoFile /\ ValidProjectData(jsonFile) /\ projectData' # projectData

C27_ActiveTabValid ==
    0 <= activeTab /\ activeTab < Len(projectData.directions)

----------------------------------------------------------------------------
(* DirectionTab: properties *)

\* C24: once every deferred callback has run, a direction in 'rss' or
\* 'worstCase' mode shows the result calculateTolerance gives for its items
\* and that mode, and a direction without items shows no result: no Monte
\* Carlo result scheduled earlier is shown in their place.
C24_LatestResultShown ==
    timers = <<>> =>
        /\ items = <<>> => rssResult = NoResult
        /\ (items # <<>> /\ calculationMode # "monteCarlo") =>
               rssResult = calculateTolerance(items, calculationMode)

\* C25: isCalculating is true while a deferred Monte Carlo calculation is
\* pending; it stays true until the last scheduled calculation has run.
C25_CalculatingWhilePending ==
    timers # <<>> => isCalculating

----------------------------------------------------------------------------
(* Item-details dialog: properties *)

\* C26: a save of the item-details dialog that changes the project leaves the
\* edited item with the dialog's notes and the dialog's source, and every
\* other item as it was.
C26_SaveStoresBothFields ==
    [][(notesDialog.open /\ ~notesDialog'.open /\ projectData' # projectData) =>
          LET before == projectData.directions[activeTab + 1].items
              after == projectData'.directions[activeTab + 1].items
              j == notesDialog.editingItem
          IN  /\ Len(after) = Len(before)
              /\ TextOf(after[j], "notes") = notesDialog.editNotes
              /\ TextOf(after[j], "source") = notesDialog.editSource
              /\ \A k \in 1..Len(before) : k # j => after[k] = before[k]]_vars

----------------------------------------------------------------------------
(* Monte Carlo engine: risk analysis with limits in any order *)

\* the sample lies outside the specification
OutOfSpec(x) ==
    \/ usl # Undefined /\ x > usl.num
    \/ lsl # Undefined /\ x < lsl.num

IsFraction(p) == 0 <= p.num /\ p.num <= p.den

\* C28: in the riskAnalysis block of a run of at least one iteration the
\* three probabilities lie in [0, 1], and probabilityOutOfSpec is the number
\* of samples outside the specification over the number of samples.
C28_RiskProbabilities ==
    (pc = "returned" /\ settings.iterations >= 1 /\ mcResult.riskAnalysis # Undefined) =>
        LET risk == mcResult.riskAnalysis
            outside == Cardinality({k \in 1..Len(stackSamples) : OutOfSpec(stackSamples[k])})
        IN  /\ IsFraction(risk.probabilityExceedingUSL)
            /\ IsFraction(risk.probabilityExceedingLSL)
            /\ IsFraction(risk.probabilityOutOfSpec)
            /\ risk.probabilityOutOfSpec = [num |-> outside, den |-> settings.iterations]

----------------------------------------------------------------------------
(* CSV export: properties *)

\* C29: in the exported content every item row carries the contribution that
\* calculateRSS computes for the item in the same export.
C29_ExportedContributions ==
    [][csvContent' # csvContent =>
          \A k \in 1..Len(projectData.directions) :
              LET its == projectData.directions[k].items
                  exported == calculateRSS(its)
              IN  \A j \in 1..Len(its) :
                      LET row == csvContent'[k].rows[j]
                          computed == exported.itemContributions[j]
                      IN  IF projectData.toleranceMode = "symmetric"
                          THEN row.contribution = ToFixed4(computed.contributionPlus)
                          ELSE /\ row.contributionPlus = ToFixed4(computed.contributionPlus)
                               /\ row.contributionMinus = ToFixed4(computed.contributionMinus)]_vars


\* the item with the float factor of getItemFloatFactor written into it
WithEffectiveFactor(item) ==
    [f \in DOMAIN item \cup {"floatFactor"} |->
        IF f = "floatFactor" THEN getItemFloatFactor(item) ELSE item[f]]

EffectiveItems(its) == [k \in 1..Len(its) |-> WithEffectiveFactor(its[k])]

====
